---- MODULE Spec2Model ----
(***************************************************************************)
(* Model of the document rendering pipeline of blw-diagnostic-agent:       *)
(*   - the plan schema (DocStructure / Section / Subsection / DocElement)  *)
(*     of sub_agents/doc_structure_planner/agent.py,                       *)
(*   - the renderer tool create_docx_from_structure of                     *)
(*     tools/docx_creator.py.                                              *)
(*                                                                         *)
(* Python values are tagged records (field py names the Python type), so   *)
(* that isinstance tests, truthiness and attribute access are modelled as  *)
(* the interpreter performs them.  A Python str is a sequence of tokens    *)
(* (a token is a character or an indivisible run of characters).           *)
(***************************************************************************)
EXTENDS Integers, Sequences, FiniteSets, TLC

VARIABLES
    state,   \* PipelineState (tool_context.state): key -> Python value
    dirs,    \* storage: the directories that exist (absolute paths)
    files,   \* storage: absolute path -> saved document (sequence of blocks)
    last     \* the last invocation: its arguments, the state before it,
             \* how it ended (exc) and the blocks appended to the document

vars == <<state, dirs, files, last>>

----------------------------------------------------------------------------
(* Python values *)

PyNone == [py |-> "None"]
PyStr(t) == [py |-> "str", s |-> t]
PyList(xs) == [py |-> "list", items |-> xs]
PyDict(m) == [py |-> "dict", d |-> m]
PyModel(c, f) == [py |-> "model", cls |-> c, fields |-> f]

\* a str that holds a JSON document: pre + json.dumps(doc) + post
PyJsonText(a, v, b) == [py |-> "str", pre |-> a, doc |-> v, post |-> b]

IsInstance(v, c) ==
    IF c \in {"None", "str", "list", "dict"} THEN v.py = c
    ELSE v.py = "model" /\ v.cls = c

IsPlainStr(v) == v.py = "str" /\ "s" \in DOMAIN v

\* bool(v)
Truthy(v) ==
    CASE v.py = "None" -> FALSE
      [] v.py = "str"  -> IF "s" \in DOMAIN v THEN v.s # <<>> ELSE TRUE
      [] v.py = "list" -> v.items # <<>>
      [] v.py = "dict" -> DOMAIN v.d # {}
      [] OTHER         -> TRUE

\* v or w
PyOr(v, w) == IF Truthy(v) THEN v ELSE w

EmptyStr == PyStr(<<>>)

\* the outcome of a step that may raise: exc is "None" or the exception
Ok(v) == [exc |-> "None", val |-> v]
Raise(e) == [exc |-> e, val |-> PyNone]

\* whether obj.name is defined on a pydantic model instance (reading an
\* undeclared name raises AttributeError)
HasAttr(obj, name) == obj.py = "model" /\ name \in DOMAIN obj.fields

----------------------------------------------------------------------------
(* Python built-ins used by the code *)

Min(S) == CHOOSE x \in S : \A y \in S : x <= y
Max(S) == CHOOSE x \in S : \A y \in S : x >= y

RECURSIVE Flatten(_)
Flatten(ss) == IF ss = <<>> THEN <<>> ELSE Head(ss) \o Flatten(Tail(ss))

Whitespace == {" ", "\n"}

RECURSIVE LStripSet(_, _)
LStripSet(t, cs) ==
    IF t # <<>> /\ Head(t) \in cs THEN LStripSet(Tail(t), cs) ELSE t

RECURSIVE RStripSet(_, _)
RStripSet(t, cs) ==
    IF t # <<>> /\ t[Len(t)] \in cs
    THEN RStripSet(SubSeq(t, 1, Len(t) - 1), cs) ELSE t

\* t.strip() and t.strip(c)
Strip(t) == RStripSet(LStripSet(t, Whitespace), Whitespace)
StripChar(t, c) == RStripSet(LStripSet(t, {c}), {c})

\* t.split(sep), sep a single token: always at least one piece
RECURSIVE Split(_, _)
Split(t, sep) ==
    LET at == {i \in 1..Len(t) : t[i] = sep} IN
    IF at = {} THEN <<t>>
    ELSE <<SubSeq(t, 1, Min(at) - 1)>> \o Split(SubSeq(t, Min(at) + 1, Len(t)), sep)

\* [x for x in xs if keep(x)] for a set of kept indices
RECURSIVE SelectIdx(_, _, _)
SelectIdx(xs, keep, i) ==
    IF i > Len(xs) THEN <<>>
    ELSE (IF i \in keep THEN <<xs[i]>> ELSE <<>>) \o SelectIdx(xs, keep, i + 1)

\* int(c) for a decimal digit
DigitValue(c) ==
    CASE c = "0" -> 0 [] c = "1" -> 1 [] c = "2" -> 2 [] c = "3" -> 3
      [] c = "4" -> 4 [] c = "5" -> 5 [] c = "6" -> 6 [] c = "7" -> 7
      [] c = "8" -> 8 [] c = "9" -> 9

----------------------------------------------------------------------------
(* The plan schema: pydantic validation of a mapping into the typed models *)

\* the Literal of DocElement.type
ElementTypes ==
    { <<"p">>, <<"ul">>, <<"li">>, <<"table">>,
      <<"h", "1">>, <<"h", "2">>, <<"h", "3">>,
      <<"h", "4">>, <<"h", "5">>, <<"h", "6">> }

\* a required str field / an Optional[str] field with default None
ValidStrField(m, k) == k \in DOMAIN m /\ m[k].py = "str"
ValidOptStrField(m, k) == k \notin DOMAIN m \/ m[k].py \in {"None", "str"}
OptField(m, k) == IF k \in DOMAIN m THEN m[k] ELSE PyNone

ValidElement(v) ==
    \/ IsInstance(v, "DocElement")
    \/ /\ v.py = "dict"
       /\ "type" \in DOMAIN v.d
       /\ IsPlainStr(v.d["type"])
       /\ v.d["type"].s \in ElementTypes
       /\ ValidStrField(v.d, "content")

\* undeclared keys of the mapping are ignored (pydantic's default)
ToElement(v) ==
    IF v.py = "model" THEN v
    ELSE PyModel("DocElement", [type |-> v.d["type"], content |-> v.d["content"]])

ValidElementList(v) ==
    v.py = "list" /\ \A i \in 1..Len(v.items) : ValidElement(v.items[i])

ToElementList(v) == PyList([i \in 1..Len(v.items) |-> ToElement(v.items[i])])

ValidSubsection(v) ==
    \/ IsInstance(v, "Subsection")
    \/ /\ v.py = "dict"
       /\ ValidStrField(v.d, "title")
       /\ "elements" \in DOMAIN v.d
       /\ ValidElementList(v.d["elements"])

ToSubsection(v) ==
    IF v.py = "model" THEN v
    ELSE PyModel("Subsection",
                 [title |-> v.d["title"], elements |-> ToElementList(v.d["elements"])])

ValidSection(v) ==
    \/ IsInstance(v, "Section")
    \/ /\ v.py = "dict"
       /\ ValidStrField(v.d, "title")
       /\ ValidOptStrField(v.d, "description")
       /\ ValidOptStrField(v.d, "conclusion")
       /\ ("elements" \in DOMAIN v.d => ValidElementList(v.d["elements"]))
       /\ "subsections" \in DOMAIN v.d =>
             \/ v.d["subsections"].py = "None"
             \/ /\ v.d["subsections"].py = "list"
                /\ \A i \in 1..Len(v.d["subsections"].items) :
                      ValidSubsection(v.d["subsections"].items[i])

ToSection(v) ==
    IF v.py = "model" THEN v
    ELSE PyModel("Section",
          [title       |-> v.d["title"],
           description |-> OptField(v.d, "description"),
           conclusion  |-> OptField(v.d, "conclusion"),
           elements    |-> IF "elements" \in DOMAIN v.d
                           THEN ToElementList(v.d["elements"]) ELSE PyList(<<>>),
           subsections |-> IF "subsections" \in DOMAIN v.d /\ v.d["subsections"].py = "list"
                           THEN PyList([i \in 1..Len(v.d["subsections"].items) |->
                                          ToSubsection(v.d["subsections"].items[i])])
                           ELSE PyNone])

\* a constructor that drops what it cannot validate instead of raising
NewDocStructureLenient(m) ==
    IF /\ "sections" \in DOMAIN m
       /\ m["sections"].py = "list"
       /\ \A i \in 1..Len(m["sections"].items) : ValidSection(m["sections"].items[i])
    THEN Ok(PyModel("DocStructure",
            [sections |-> PyList([i \in 1..Len(m["sections"].items) |->
                                    ToSection(m["sections"].items[i])])]))
    ELSE Ok(PyModel("DocStructure", [sections |-> PyList(<<>>)]))

\* DocStructure(**m): m the keyword arguments
NewDocStructure(m) ==
    IF /\ "sections" \in DOMAIN m
       /\ m["sections"].py = "list"
       /\ \A i \in 1..Len(m["sections"].items) : ValidSection(m["sections"].items[i])
    THEN Ok(PyModel("DocStructure",
            [sections |-> PyList([i \in 1..Len(m["sections"].items) |->
                                    ToSection(m["sections"].items[i])])]))
    ELSE Raise("ValidationError")

----------------------------------------------------------------------------
(* The document (python-docx): the blocks appended to its body, in order *)

Paragraph(text, style) == [kind |-> "paragraph", text |-> text, style |-> style]
Heading(text, level) == [kind |-> "heading", text |-> text, level |-> level]
Cell(text, bold) == [text |-> text, bold |-> bold]
Table(cells, style) == [kind |-> "table", cells |-> cells, tstyle |-> style]

\* a step of the rendering: the blocks it appended, and the exception that
\* ended it ("None" when it completed)
Done(bs) == [exc |-> "None", blocks |-> bs]
Abort(e, bs) == [exc |-> e, blocks |-> bs]

\* steps executed in sequence: the first exception ends the run, and the
\* blocks appended before it stay in the document object
Chain(steps) ==
    LET bad == {i \in 1..Len(steps) : steps[i].exc # "None"}
        n   == IF bad = {} THEN Len(steps) ELSE Min(bad)
    IN  [exc    |-> IF bad = {} THEN "None" ELSE steps[n].exc,
         blocks |-> Flatten([i \in 1..n |-> steps[i].blocks])]

\* the non-blank lines of content, each stripped
StrippedLines(t) ==
    LET ls == Split(t, "\n")
    IN  SelectIdx([i \in 1..Len(ls) |-> Strip(ls[i])],
                  {i \in 1..Len(ls) : Strip(ls[i]) # <<>>}, 1)

\* doc.add_table(rows, cols) then the cells written from the rows given
TableFrom(rows, cols) ==
    Table([i \in 1..Len(rows) |->
             [j \in 1..cols |->
                IF j <= Len(rows[i]) THEN Cell(rows[i][j], i = 1)
                ELSE Cell(EmptyStr, FALSE)]],
          "Light Grid Accent 1")

\* the ul / ol branch
ListBlocks(el, style) ==
    IF ~HasAttr(el, "list_items") THEN Abort("AttributeError", <<>>)
    ELSE IF Truthy(el.fields["list_items"])
    THEN Done([i \in 1..Len(el.fields["list_items"].items) |->
                 Paragraph(el.fields["list_items"].items[i], style)])
    ELSE IF Truthy(el.fields["content"])
    THEN LET ls == StrippedLines(el.fields["content"].s)
         IN  Done([i \in 1..Len(ls) |-> Paragraph(PyStr(ls[i]), style)])
    ELSE Done(<<>>)

\* the table branch
TableBlocks(el) ==
    IF ~HasAttr(el, "table_data") THEN Abort("AttributeError", <<>>)
    ELSE IF Truthy(el.fields["table_data"]) /\ Len(el.fields["table_data"].items) > 0
    THEN LET data == el.fields["table_data"].items
             rows == [i \in 1..Len(data) |-> data[i].items]
             num_cols == Max({Len(rows[i]) : i \in 1..Len(rows)})
         IN  IF num_cols > 0 THEN Done(<<TableFrom(rows, num_cols)>>) ELSE Done(<<>>)
    ELSE IF Truthy(el.fields["content"])
    THEN LET rows == StrippedLines(Strip(el.fields["content"].s))
             parsed_rows ==
                 [i \in 1..Len(rows) |->
                    LET cells == Split(StripChar(rows[i], "|"), "|")
                    IN  [j \in 1..Len(cells) |-> PyStr(Strip(cells[j]))]]
         IN  IF rows # <<>>
             THEN Done(<<TableFrom(parsed_rows, Len(parsed_rows[1]))>>)
             ELSE Done(<<>>)
    ELSE Done(<<>>)

\* the quote branch
QuoteBlocks(el) ==
    IF ~HasAttr(el, "quote_text") THEN Abort("AttributeError", <<>>)
    ELSE IF Truthy(el.fields["quote_text"])
    THEN Done(<<Paragraph(el.fields["quote_text"], "Quote")>>)
    ELSE IF Truthy(el.fields["content"])
    THEN Done(<<Paragraph(el.fields["content"], "Quote")>>)
    ELSE Done(<<>>)

HeadingTypes ==
    { <<"h", "1">>, <<"h", "2">>, <<"h", "3">>,
      <<"h", "4">>, <<"h", "5">>, <<"h", "6">> }

\* one element of a section's elements
RenderElement(el) ==
    LET type == el.fields["type"].s
        content == el.fields["content"]
    IN  CASE type = <<"p">>     -> Done(<<Paragraph(PyOr(content, EmptyStr), "Normal")>>)
          [] type = <<"ul">>    -> ListBlocks(el, "List Bullet")
          [] type = <<"ol">>    -> ListBlocks(el, "List Number")
          [] type = <<"li">>    -> Done(<<Paragraph(PyOr(content, EmptyStr), "List Number")>>)
          [] type = <<"table">> -> TableBlocks(el)
          [] type = <<"quote">> -> QuoteBlocks(el)
          [] type \in HeadingTypes ->
                 Done(<<Heading(PyOr(content, EmptyStr), DigitValue(type[2]))>>)
          [] OTHER -> Done(<<Paragraph(PyOr(content, EmptyStr), "Normal")>>)

RenderElements(els) == Chain([i \in 1..Len(els) |-> RenderElement(els[i])])

\* the ul / ol branch of the loop over a subsection's elements
SubListBlocks(el, style) ==
    IF ~HasAttr(el, "list_items") THEN Abort("AttributeError", <<>>)
    ELSE IF Truthy(el.fields["list_items"])
    THEN Done([i \in 1..Len(el.fields["list_items"].items) |->
                 Paragraph(el.fields["list_items"].items[i], style)])
    ELSE IF Truthy(el.fields["content"])
    THEN LET ls == StrippedLines(el.fields["content"].s)
         IN  Done([i \in 1..Len(ls) |-> Paragraph(PyStr(ls[i]), style)])
    ELSE Done(<<>>)

\* the table branch of the loop over a subsection's elements
SubTableBlocks(el) ==
    IF ~HasAttr(el, "table_data") THEN Abort("AttributeError", <<>>)
    ELSE IF Truthy(el.fields["table_data"]) /\ Len(el.fields["table_data"].items) > 0
    THEN LET data == el.fields["table_data"].items
             rows == [i \in 1..Len(data) |-> data[i].items]
             num_cols == Max({Len(rows[i]) : i \in 1..Len(rows)})
         IN  IF num_cols > 0 THEN Done(<<TableFrom(rows, num_cols)>>) ELSE Done(<<>>)
    ELSE IF Truthy(el.fields["content"])
    THEN LET rows == StrippedLines(Strip(el.fields["content"].s))
             parsed_rows ==
                 [i \in 1..Len(rows) |->
                    LET cells == Split(StripChar(rows[i], "|"), "|")
                    IN  [j \in 1..Len(cells) |-> PyStr(Strip(cells[j]))]]
         IN  IF rows # <<>>
             THEN Done(<<TableFrom(parsed_rows, Len(parsed_rows[1]))>>)
             ELSE Done(<<>>)
    ELSE Done(<<>>)

\* the quote branch of the loop over a subsection's elements
SubQuoteBlocks(el) ==
    IF ~HasAttr(el, "quote_text") THEN Abort("AttributeError", <<>>)
    ELSE IF Truthy(el.fields["quote_text"])
    THEN Done(<<Paragraph(el.fields["quote_text"], "Quote")>>)
    ELSE IF Truthy(el.fields["content"])
    THEN Done(<<Paragraph(el.fields["content"], "Quote")>>)
    ELSE Done(<<>>)

\* a subsection loop that renders every element as a plain paragraph
RenderSubElementPlain(el) ==
    Done(<<Paragraph(PyOr(el.fields["content"], EmptyStr), "Normal")>>)

\* one element of a subsection's elements
RenderSubElement(el) ==
    LET type == el.fields["type"].s
        content == el.fields["content"]
    IN  CASE type = <<"p">>     -> Done(<<Paragraph(PyOr(content, EmptyStr), "Normal")>>)
          [] type = <<"ul">>    -> SubListBlocks(el, "List Bullet")
          [] type = <<"ol">>    -> SubListBlocks(el, "List Number")
          [] type = <<"li">>    -> Done(<<Paragraph(PyOr(content, EmptyStr), "List Number")>>)
          [] type = <<"table">> -> SubTableBlocks(el)
          [] type = <<"quote">> -> SubQuoteBlocks(el)
          [] type \in HeadingTypes ->
                 Done(<<Heading(PyOr(content, EmptyStr), DigitValue(type[2]))>>)
          [] OTHER -> Done(<<Paragraph(PyOr(content, EmptyStr), "Normal")>>)

RenderSubElements(els) == Chain([i \in 1..Len(els) |-> RenderSubElement(els[i])])

\* one subsection: its heading, then its elements
RenderSubsection(sub) ==
    Chain(<< Done(<<Heading(sub.fields["title"], 2)>>),
             RenderSubElements(sub.fields["elements"].items) >>)

\* one iteration of the loop over doc_structure.sections
RenderSection(sec) ==
    Chain(<< Done(<<Heading(sec.fields["title"], 1)>>),
             IF Truthy(sec.fields["description"])
             THEN Done(<<Paragraph(sec.fields["description"], "Normal")>>)
             ELSE Done(<<>>),
             IF Truthy(sec.fields["elements"])
             THEN RenderElements(sec.fields["elements"].items)
             ELSE Done(<<>>),
             IF Truthy(sec.fields["subsections"])
             THEN Chain([i \in 1..Len(sec.fields["subsections"].items) |->
                           RenderSubsection(sec.fields["subsections"].items[i])])
             ELSE Done(<<>>),
             IF Truthy(sec.fields["conclusion"])
             THEN Done(<<Paragraph(sec.fields["conclusion"], "Normal")>>)
             ELSE Done(<<>>) >>)

\* an assembler that refuses a plan without sections
RenderSectionsNonEmpty(plan) ==
    IF plan.fields["sections"].items = <<>>
    THEN Abort("ValueError: empty plan", <<>>)
    ELSE Chain([i \in 1..Len(plan.fields["sections"].items) |->
                  RenderSection(plan.fields["sections"].items[i])])

\* the loop over doc_structure.sections
RenderSections(plan) ==
    Chain([i \in 1..Len(plan.fields["sections"].items) |->
             RenderSection(plan.fields["sections"].items[i])])

----------------------------------------------------------------------------
(* Paths (pathlib) and storage.  A path string is a sequence of tokens, *)
(* each "/" or a name; a parsed path is its anchor and its names.       *)

\* the working directory of the process
Cwd == [abs |-> TRUE, parts |-> <<"work">>]

\* pathlib.Path(t)
Path(t) ==
    LET ps == Split(t, "/")
    IN  [abs   |-> t # <<>> /\ t[1] = "/",
         parts |-> Flatten(SelectIdx(ps, {i \in 1..Len(ps) : ps[i] # <<>>}, 1))]

\* p.parent
Parent(p) ==
    [abs |-> p.abs,
     parts |-> IF p.parts = <<>> THEN <<>> ELSE SubSeq(p.parts, 1, Len(p.parts) - 1)]

\* a renderer that stores the path as it was given
AbsoluteAsGiven(p) == p

\* p.absolute()
Absolute(p) == IF p.abs THEN p ELSE [abs |-> TRUE, parts |-> Cwd.parts \o p.parts]

\* str(p)
RECURSIVE JoinParts(_)
JoinParts(ps) ==
    IF ps = <<>> THEN <<>>
    ELSE IF Len(ps) = 1 THEN <<ps[1]>>
    ELSE <<ps[1], "/">> \o JoinParts(Tail(ps))

PathStr(p) ==
    IF p.abs THEN <<"/">> \o JoinParts(p.parts)
    ELSE IF p.parts = <<>> THEN <<".">> ELSE JoinParts(p.parts)

\* a mkdir that takes an existing directory for an error (exist_ok=False)
MkdirRaisesIfExists(ds, p, io) ==
    io = "mkdir fails" \/ Absolute(p).parts \in ds

\* mkdir(parents=True, exist_ok=True) raises: the storage refuses to create
\* a directory and p is not there already
MkdirRaises(ds, p, io) ==
    io = "mkdir fails" /\ Absolute(p).parts \notin ds

\* the directories mkdir(parents=True, exist_ok=True) leaves existing
Ancestors(p) == {SubSeq(Absolute(p).parts, 1, n) : n \in 0..Len(Absolute(p).parts)}
Mkdir(ds, p) == ds \cup Ancestors(p)

\* a save that reports success and writes nothing
SaveNothing(fs, p, doc) == fs

\* the files after doc.save(path)
Save(fs, p, doc) ==
    LET at == Absolute(p).parts
    IN  [q \in DOMAIN fs \cup {at} |-> IF q = at THEN doc ELSE fs[q]]

----------------------------------------------------------------------------
(* json.loads of a str, and the renderer create_docx_from_structure *)

JsonLoads(v) ==
    IF "doc" \in DOMAIN v /\ Strip(v.pre) = <<>> /\ Strip(v.post) = <<>>
    THEN Ok(v.doc)
    ELSE Raise("JSONDecodeError")

DefaultOutputPath == PyStr(<<"diagnostic_report.docx">>)
DefaultLanguage == PyStr(<<"uk">>)

\* output_path / language as used by the run: the default for a None
\* argument, then the value of the state under the same key
ResolveParam(arg, key, default, has_ctx, st) ==
    LET a == IF arg.py = "None" THEN default ELSE arg
    IN  IF has_ctx /\ key \in DOMAIN st THEN st[key] ELSE a

\* a lookup that makes up an empty plan when the state holds none
LookupPlanInvented(has_ctx, st) ==
    IF has_ctx /\ "doc_structure" \in DOMAIN st
    THEN LET state_structure == st["doc_structure"]
         IN  IF IsInstance(state_structure, "dict") /\ "sections" \in DOMAIN state_structure.d
             THEN state_structure
             ELSE IF IsInstance(state_structure, "DocStructure")
             THEN state_structure
             ELSE PyNone
    ELSE PyDict([sections |-> PyList(<<>>)])

\* a lookup that finds the state without a tool context
LookupPlanNoContext(has_ctx, st) ==
    IF "doc_structure" \in DOMAIN st
    THEN LET state_structure == st["doc_structure"]
         IN  IF IsInstance(state_structure, "dict") /\ "sections" \in DOMAIN state_structure.d
             THEN state_structure
             ELSE IF IsInstance(state_structure, "DocStructure")
             THEN state_structure
             ELSE PyNone
    ELSE PyNone

\* the plan looked up in the state; None when there is none to use
LookupPlan(has_ctx, st) ==
    IF has_ctx /\ "doc_structure" \in DOMAIN st
    THEN LET state_structure == st["doc_structure"]
         IN  IF IsInstance(state_structure, "dict") /\ "sections" \in DOMAIN state_structure.d
             THEN state_structure
             ELSE IF IsInstance(state_structure, "DocStructure")
             THEN state_structure
             ELSE PyNone
    ELSE PyNone

\* a normalization that takes mappings only
NormalizePlanDictOnly(ds) ==
    IF ds.py = "None" THEN Raise("ValueError: doc_structure not found in state")
    ELSE LET decoded == IF IsInstance(ds, "str") THEN JsonLoads(ds) ELSE Ok(ds)
         IN  IF decoded.exc # "None"
             THEN Raise("ValueError: could not parse doc_structure as JSON")
             ELSE IF IsInstance(decoded.val, "dict")
             THEN IF "sections" \notin DOMAIN decoded.val.d
                  THEN Raise("ValueError: doc_structure dict must have 'sections' key")
                  ELSE NewDocStructure(decoded.val.d)
             ELSE Raise("TypeError")

\* the plan converted to a DocStructure instance
NormalizePlan(ds) ==
    IF ds.py = "None" THEN Raise("ValueError: doc_structure not found in state")
    ELSE LET decoded == IF IsInstance(ds, "str") THEN JsonLoads(ds) ELSE Ok(ds)
         IN  IF decoded.exc # "None"
             THEN Raise("ValueError: could not parse doc_structure as JSON")
             ELSE IF IsInstance(decoded.val, "dict")
             THEN IF "sections" \notin DOMAIN decoded.val.d
                  THEN Raise("ValueError: doc_structure dict must have 'sections' key")
                  ELSE NewDocStructure(decoded.val.d)
             ELSE IF ~IsInstance(decoded.val, "DocStructure")
             THEN Raise("TypeError")
             ELSE decoded

\* an assignment that overwrites every entry of the state
SetItemClobber(st, key, val) == [k \in DOMAIN st \cup {key} |-> val]

\* st[key] = val
SetItem(st, key, val) ==
    [k \in DOMAIN st \cup {key} |-> IF k = key THEN val ELSE st[k]]

\* what the storage does in a run: everything works, the directory cannot be
\* created, or the document cannot be written
IoOutcomes == {"ok", "mkdir fails", "save fails"}

\* One call create_docx_from_structure(output_path, language, tool_context)
\* on state st and storage (ds, fs): how it ends and what it leaves.
Run(output_path_arg, language_arg, has_ctx, io, st, ds, fs) ==
    LET output_path == ResolveParam(output_path_arg, "output_path", DefaultOutputPath, has_ctx, st)
        language    == ResolveParam(language_arg, "language", DefaultLanguage, has_ctx, st)
        plan        == NormalizePlan(LookupPlan(has_ctx, st))
        target      == Path(output_path.s)
        st1         == IF has_ctx THEN SetItem(st, "document_language", language) ELSE st
        body        == RenderSections(plan.val)
        ds1         == Mkdir(ds, Parent(target))
    IN  IF plan.exc # "None"
        THEN [exc |-> plan.exc, st |-> st, ds |-> ds, fs |-> fs, blocks |-> <<>>, ret |-> PyNone]
        ELSE IF MkdirRaises(ds, Parent(target), io)
        THEN [exc |-> "OSError: mkdir", st |-> st, ds |-> ds, fs |-> fs, blocks |-> <<>>, ret |-> PyNone]
        ELSE IF body.exc # "None"
        THEN [exc |-> body.exc, st |-> st1, ds |-> ds1, fs |-> fs, blocks |-> body.blocks, ret |-> PyNone]
        ELSE IF io = "save fails"
        THEN [exc |-> "OSError: save", st |-> st1, ds |-> ds1, fs |-> fs, blocks |-> body.blocks, ret |-> PyNone]
        ELSE [exc |-> "None",
              st |-> IF has_ctx
                     THEN SetItem(SetItem(st1, "generated_docx", PyStr(PathStr(Absolute(target)))),
                                  "document_language", language)
                     ELSE st1,
              ds |-> ds1,
              fs |-> Save(fs, target, body.blocks),
              blocks |-> body.blocks,
              ret |-> PyDict([output_path |-> output_path, language |-> language])]

----------------------------------------------------------------------------
(* The inputs: plans as the planning stage emits them (JSON-like mappings) *)

MaxSections == 2

Str(c) == PyStr(<<c>>)
El(type, content) == PyDict([type |-> PyStr(type), content |-> PyStr(content)])
Sub(title, els) == PyDict([title |-> Str(title), elements |-> PyList(els)])

\* element mappings: every kind the renderer dispatches on, with and
\* without the optional fields
ElementPool ==
    { El(<<"p">>, <<"a">>),
      El(<<"p">>, <<>>),
      PyDict([type |-> Str("p")]),
      PyDict([type |-> Str("p"), content |-> PyNone]),
      El(<<"ul">>, <<"a", "\n", " ", "\n", "b">>),
      PyDict([type |-> Str("ul"), content |-> Str("a"),
              list_items |-> PyList(<<Str("x"), Str("y")>>)]),
      PyDict([type |-> Str("ol"), content |-> Str("a"),
              list_items |-> PyList(<<Str("x"), Str("y")>>)]),
      El(<<"ol">>, <<"a", "\n", "b">>),
      El(<<"li">>, <<"b">>),
      PyDict([type |-> Str("li")]),
      El(<<"table">>, <<>>),
      PyDict([type |-> Str("table"),
              content |-> PyStr(<<"|", "A", "|", "\n", "|", "1", "|">>),
              table_data |-> PyList(<<PyList(<<>>)>>)]),
      El(<<"table">>, <<"|", "A", "|", "B", "|", "\n", "|", "1", "|", "2", "|", "3", "|">>),
      PyDict([type |-> Str("table"), content |-> PyStr(<<>>),
              table_data |-> PyList(<< PyList(<<Str("A"), Str("B")>>),
                                       PyList(<<Str("1"), Str("2"), Str("3")>>) >>)]),
      PyDict([type |-> Str("quote"), content |-> Str("a"), quote_text |-> Str("q")]),
      El(<<"quote">>, <<"a">>),
      El(<<"h", "1">>, <<"a">>),
      El(<<"h", "3">>, <<>>),
      El(<<"h", "6">>, <<"a">>),
      El(<<"h", "7">>, <<"a">>),
      El(<<"callout">>, <<"a">>),
      PyDict([content |-> Str("a")]) }

\* section mappings: title only, content in elements, in subsections, in both
SecTitleOnly == PyDict([title |-> Str("T1")])
SecFull ==
    PyDict([title |-> Str("T2"), description |-> Str("d"),
            elements |-> PyList(<<El(<<"p">>, <<"a">>), El(<<"li">>, <<"b">>)>>),
            subsections |-> PyList(<<Sub("U1", <<El(<<"h", "2">>, <<"c">>), El(<<"p">>, <<"a">>)>>)>>),
            conclusion |-> Str("c")])
SecRepeated ==
    PyDict([title |-> Str("T1"), description |-> PyStr(<<>>),
            elements |-> PyList(<<El(<<"p">>, <<"a">>), El(<<"p">>, <<"a">>)>>),
            subsections |-> PyNone, conclusion |-> PyNone])
SecSubsOnly ==
    PyDict([title |-> Str("T3"),
            subsections |-> PyList(<<Sub("U1", <<El(<<"li">>, <<"b">>)>>), Sub("U2", <<>>)>>),
            conclusion |-> Str("c")])
SecBulleted ==
    PyDict([title |-> Str("T2"),
            elements |-> PyList(<<El(<<"p">>, <<"a">>), El(<<"ul">>, <<"a", "\n", "b">>)>>),
            conclusion |-> Str("c")])

SectionPool == {SecTitleOnly, SecFull, SecRepeated, SecSubsOnly, SecBulleted}

SeqsUpTo(S, n) == UNION {[1..k -> S] : k \in 0..n}

PlanOf(secs) == PyDict([sections |-> PyList(secs)])

\* plans of up to MaxSections sections
StructuredPlans == {PlanOf(ss) : ss \in SeqsUpTo(SectionPool, MaxSections)}

\* one section holding one element of the pool
ElementPlan(e) == PlanOf(<<PyDict([title |-> Str("T1"), elements |-> PyList(<<e>>)])>>)
ElementPlans == {ElementPlan(e) : e \in ElementPool}

\* one section holding one subsection that holds one element of the pool
SubElementPlan(e) ==
    PlanOf(<<PyDict([title |-> Str("T1"), subsections |-> PyList(<<Sub("U1", <<e>>)>>)])>>)
SubElementPlans == {SubElementPlan(e) : e \in ElementPool}

\* a single list item between two bullet lists
ListItemPlan ==
    PlanOf(<<PyDict([title |-> Str("T1"),
                     elements |-> PyList(<<El(<<"ul">>, <<"a">>), El(<<"li">>, <<"b">>),
                                          El(<<"ul">>, <<"c">>)>>)])>>)

\* mappings that are no plan
MalformedPlans ==
    { PyDict(<<>>),
      PyDict([title |-> Str("T1")]),
      PyDict([sections |-> Str("T1")]),
      PlanOf(<<PyDict([description |-> Str("d")])>>),
      PlanOf(<<PyDict([title |-> Str("T1"), elements |-> PyNone])>>) }

RawPlans ==
    StructuredPlans \cup ElementPlans \cup SubElementPlans \cup {ListItemPlan} \cup MalformedPlans

\* the token that stands for a code fence marker (three backticks)
Fence == "<fence>"

\* the shapes a plan was emitted in: the mapping, the typed instance, JSON
\* text, JSON text in a code fence
Typed(raw) == NewDocStructure(raw.d).val
Shapes(raw) ==
    { raw,
      PyJsonText(<<>>, raw, <<>>),
      PyJsonText(<<Fence, "json", "\n">>, raw, <<"\n", Fence>>),
      PyJsonText(<<Fence, "\n">>, raw, <<"\n", Fence>>) }
    \cup (IF NewDocStructure(raw.d).exc = "None" THEN {Typed(raw)} ELSE {})

PlanValues == UNION {Shapes(raw) : raw \in RawPlans}

\* the plans the state machine is seeded with
SeedPlans == {PlanOf(<<>>), PlanOf(<<SecFull>>), PlanOf(<<SecBulleted>>), PyDict([title |-> Str("T1")])}
SeedPlanValues == UNION {Shapes(raw) : raw \in SeedPlans}

----------------------------------------------------------------------------
(* The planner's after-model callback save_doc_structure_callback *)

\* an LlmResponse with the given content (None, or the list of its parts),
\* and a part that carries no text (a function call, a thought signature)
LlmResponse(content) == [py |-> "LlmResponse", content |-> content]
NonTextPart == [py |-> "Part"]

\* the texts of the parts that have a non-empty text
TextParts(parts) == SelectSeq(parts, LAMBDA part : part.py = "str" /\ Truthy(part))

\* a + b, for texts of which at most one holds a JSON document
Concat(a, b) ==
    IF "doc" \in DOMAIN a THEN PyJsonText(a.pre, a.doc, a.post \o b.s)
    ELSE IF "doc" \in DOMAIN b THEN PyJsonText(a.s \o b.pre, b.doc, b.post)
    ELSE PyStr(a.s \o b.s)

\* '\n'.join(texts)
RECURSIVE JoinLines(_)
JoinLines(texts) ==
    IF Len(texts) = 1 THEN texts[1]
    ELSE Concat(Concat(texts[1], PyStr(<<"\n">>)), JoinLines(Tail(texts)))

\* t.startswith(x) and t.replace(x, ""), x a sequence of tokens
StartsWith(t, x) == Len(t) >= Len(x) /\ SubSeq(t, 1, Len(x)) = x

RECURSIVE Remove(_, _)
Remove(t, x) ==
    IF t = <<>> THEN <<>>
    ELSE IF StartsWith(t, x) THEN Remove(SubSeq(t, Len(x) + 1, Len(t)), x)
    ELSE <<t[1]>> \o Remove(Tail(t), x)

\* the replacement reaches the strings inside the JSON document as well:
\* they are part of the text
RECURSIVE RemoveInDoc(_, _)
RemoveInDoc(v, x) ==
    IF v.py = "str" THEN PyStr(Remove(v.s, x))
    ELSE IF v.py = "list" THEN PyList([i \in 1..Len(v.items) |-> RemoveInDoc(v.items[i], x)])
    ELSE IF v.py = "dict" THEN PyDict([k \in DOMAIN v.d |-> RemoveInDoc(v.d[k], x)])
    ELSE v

TextStartsWith(text, x) ==
    StartsWith(IF "doc" \in DOMAIN text THEN text.pre ELSE text.s, x)

TextReplace(text, x) ==
    IF "doc" \in DOMAIN text
    THEN PyJsonText(Remove(text.pre, x), RemoveInDoc(text.doc, x), Remove(text.post, x))
    ELSE PyStr(Remove(text.s, x))

TextStrip(text) ==
    IF "doc" \in DOMAIN text
    THEN PyJsonText(LStripSet(text.pre, Whitespace), text.doc, RStripSet(text.post, Whitespace))
    ELSE PyStr(Strip(text.s))

\* the clean-up of markdown code blocks
CleanFences(text_response) ==
    IF TextStartsWith(text_response, <<Fence, "json">>)
    THEN TextStrip(TextReplace(TextReplace(text_response, <<Fence, "json">>), <<Fence>>))
    ELSE IF TextStartsWith(text_response, <<Fence>>)
    THEN TextStrip(TextReplace(text_response, <<Fence>>))
    ELSE text_response

\* doc_structure.model_dump()
RECURSIVE ModelDump(_)
ModelDump(v) ==
    IF v.py = "model" THEN PyDict([k \in DOMAIN v.fields |-> ModelDump(v.fields[k])])
    ELSE IF v.py = "list" THEN PyList([i \in 1..Len(v.items) |-> ModelDump(v.items[i])])
    ELSE v

NoTextParts == "ERROR: No text parts found in response"
FailedToParse == "ERROR: Failed to parse or save doc structure"

\* a callback that stores the decoded mapping without validating it
SaveDocStructureUnvalidated(st, llm_response) ==
    IF \/ llm_response.py = "None"
       \/ ~Truthy(llm_response.content)
    THEN [st |-> st, printed |-> "None"]
    ELSE LET text_parts == TextParts(llm_response.content.items) IN
         IF text_parts = <<>>
         THEN [st |-> st, printed |-> NoTextParts]
         ELSE LET text_response  == CleanFences(JoinLines(text_parts))
                  structure_dict == JsonLoads(text_response)
              IN  IF structure_dict.exc # "None"
                  THEN [st |-> st, printed |-> FailedToParse]
                  ELSE [st |-> SetItem(st, "doc_structure", structure_dict.val),
                        printed |-> "None"]

\* the callback: the state it leaves and the line it prints; every
\* exception is caught and printed
SaveDocStructure(st, llm_response) ==
    IF \/ llm_response.py = "None"
       \/ ~Truthy(llm_response.content)
    THEN [st |-> st, printed |-> "None"]
    ELSE LET text_parts == TextParts(llm_response.content.items) IN
         IF text_parts = <<>>
         THEN [st |-> st, printed |-> NoTextParts]
         ELSE LET text_response  == CleanFences(JoinLines(text_parts))
                  structure_dict == JsonLoads(text_response)
                  doc_structure  == NewDocStructure(structure_dict.val.d)
              IN  IF structure_dict.exc # "None"
                  THEN [st |-> st, printed |-> FailedToParse]
                  ELSE IF ~IsInstance(structure_dict.val, "dict")
                  THEN [st |-> st, printed |-> FailedToParse]
                  ELSE IF doc_structure.exc # "None"
                  THEN [st |-> st, printed |-> FailedToParse]
                  ELSE [st |-> SetItem(st, "doc_structure", ModelDump(doc_structure.val)),
                        printed |-> "None"]

\* plans whose element text holds fence markers
FencedContents == { <<"a", Fence, "json", "b">>, <<Fence, "a", Fence>>, <<"json">> }
FencedContentPlans == {ElementPlan(El(<<"p">>, c)) : c \in FencedContents}
PlannerPlans == RawPlans \cup FencedContentPlans

\* a plan as the model emits it: JSON text, bare or in a code fence
Bare(raw) == PyJsonText(<<>>, raw, <<>>)
FencedEncodings(raw) ==
    { PyJsonText(<<Fence, "json", "\n">>, raw, <<"\n", Fence>>),
      PyJsonText(<<Fence, "\n">>, raw, <<"\n", Fence>>) }
Encodings(raw) == {Bare(raw)} \cup FencedEncodings(raw)

OneText(t) == LlmResponse(PyList(<<t>>))

Responses ==
    { PyNone, LlmResponse(PyNone), LlmResponse(PyList(<<>>)),
      LlmResponse(PyList(<<NonTextPart>>)), OneText(Str("ok")),
      OneText(PyJsonText(<<>>, PyList(<<>>), <<>>)) }
    \cup {OneText(t) : t \in UNION {Encodings(raw) : raw \in PlannerPlans}}
    \cup {LlmResponse(PyList(<<NonTextPart, PyStr(<<>>), t>>)) : t \in Encodings(PlanOf(<<SecFull>>))}
    \cup {LlmResponse(PyList(<<Str("ok"), t>>)) : t \in Encodings(PlanOf(<<SecFull>>))}
    \cup {LlmResponse(PyList(<<PyStr(<<" ">>), t, PyStr(<<" ">>)>>)) : t \in Encodings(PlanOf(<<SecFull>>))}

----------------------------------------------------------------------------
(* The state machine *)

PathArgs == {PyNone, PyStr(<<"/", "tmp", "/", "a.docx">>)}
LanguageArgs == {PyNone, Str("ru")}
SeedPaths == {PyStr(<<"out", "/", "r.docx">>)}
SeedLanguages == {Str("en")}

\* a PipelineState of the given optional entries, beside the facts of the
\* extraction stage
StateOf(entries) ==
    [k \in {"personal_data"} \cup {e[1] : e \in entries} |->
        IF k = "personal_data" THEN PyList(<<Str("fact")>>)
        ELSE (CHOOSE e \in entries : e[1] = k)[2]]

Opt(key, values) == {{}} \cup {{<<key, v>>} : v \in values}

\* the invocation starts with zero or more seed values in its state
Seeds ==
    { StateOf(a \cup b \cup c) :
        a \in Opt("doc_structure", SeedPlanValues),
        b \in Opt("output_path", SeedPaths),
        c \in Opt("language", SeedLanguages) }

InitDirs == Ancestors(Cwd)

Init ==
    /\ state \in Seeds
    /\ dirs = InitDirs
    /\ files = <<>>
    /\ last = [op |-> "none"]

\* the tool create_docx_from_structure is called
Call(output_path, language, has_ctx, io) ==
    LET r == Run(output_path, language, has_ctx, io, state, dirs, files)
    IN  /\ state' = r.st
        /\ dirs' = r.ds
        /\ files' = r.fs
        /\ last' = [op |-> "create_docx", output_path |-> output_path,
                    language |-> language, has_ctx |-> has_ctx, io |-> io,
                    pre |-> state, pre_files |-> files, pre_dirs |-> dirs,
                    exc |-> r.exc, blocks |-> r.blocks, ret |-> r.ret]

CreateDocx ==
    \E output_path \in PathArgs, language \in LanguageArgs,
       has_ctx \in BOOLEAN, io \in IoOutcomes :
        Call(output_path, language, has_ctx, io)

Next == CreateDocx

Spec == Init /\ [][Next]_vars

\* The renderer applied once to every plan value, with the state holding
\* nothing but the plan.
InitRender ==
    /\ state \in {StateOf({<<"doc_structure", v>>}) : v \in PlanValues}
    /\ dirs = InitDirs
    /\ files = <<>>
    /\ last = [op |-> "none"]

RenderOnce ==
    /\ last.op = "none"
    /\ \E io \in IoOutcomes : Call(PyNone, PyNone, TRUE, io)

NextRender == RenderOnce

SpecRender == InitRender /\ [][NextRender]_vars

\* The planner's callback on one response of the model, then the renderer,
\* in an invocation seeded as the command line seeds it or not at all.
InitPlanner ==
    /\ state \in { StateOf({}) }
           \cup { StateOf({<<"output_path", p>>, <<"language", l>>}) :
                     p \in SeedPaths, l \in SeedLanguages }
    /\ dirs = InitDirs
    /\ files = <<>>
    /\ last = [op |-> "none"]

PlannerCallback ==
    /\ last.op = "none"
    /\ \E llm_response \in Responses :
          LET r == SaveDocStructure(state, llm_response)
          IN  /\ state' = r.st
              /\ last' = [op |-> "planner", llm_response |-> llm_response,
                          pre |-> state, printed |-> r.printed]
    /\ UNCHANGED <<dirs, files>>

RenderPlanned ==
    /\ last.op = "planner"
    /\ \E io \in IoOutcomes : Call(PyNone, PyNone, TRUE, io)

NextPlanner == PlannerCallback \/ RenderPlanned

SpecPlanner == InitPlanner /\ [][NextPlanner]_vars

\* The planner's callback and the renderer tool in any order and any number
\* of times, on a few responses of the model.
PipelinePlans ==
    { PlanOf(<<>>), PlanOf(<<SecFull>>), ElementPlan(El(<<"ul">>, <<"a">>)),
      ElementPlan(El(<<"quote">>, <<"a">>)), PlanOf(<<PyDict([description |-> Str("d")])>>),
      PyDict([title |-> Str("T1")]) }

PipelineResponses ==
    { PyNone, LlmResponse(PyList(<<NonTextPart>>)), OneText(Str("ok")),
      OneText(PyJsonText(<<>>, PyList(<<>>), <<>>)) }
    \cup {OneText(t) : t \in UNION {Encodings(raw) : raw \in PipelinePlans}}

InitPipeline ==
    /\ state \in { StateOf({}) }
           \cup { StateOf({<<"output_path", p>>, <<"language", l>>}) :
                     p \in SeedPaths, l \in SeedLanguages }
    /\ dirs = InitDirs
    /\ files = <<>>
    /\ last = [op |-> "none"]

AfterModelCallback ==
    /\ \E llm_response \in PipelineResponses :
          LET r == SaveDocStructure(state, llm_response)
          IN  /\ state' = r.st
              /\ last' = [op |-> "planner", llm_response |-> llm_response,
                          pre |-> state, printed |-> r.printed]
    /\ UNCHANGED <<dirs, files>>

RenderTool == \E io \in IoOutcomes : Call(PyNone, PyNone, TRUE, io)

NextPipeline == AfterModelCallback \/ RenderTool

SpecPipeline == InitPipeline /\ [][NextPipeline]_vars

----------------------------------------------------------------------------
(* Properties *)

Called == last.op = "create_docx"
MissingPlanError == "ValueError: doc_structure not found in state"
StorageErrors == {"OSError: mkdir", "OSError: save"}

\* the plan the last call worked on, and the parameters it reported using
PlanUsed == NormalizePlan(LookupPlan(last.has_ctx, last.pre))
UsedPath == last.ret.d["output_path"]
UsedLanguage == last.ret.d["language"]

\* C1: a call on a PipelineState without a doc_structure key fails with the
\* missing-plan error; no directory is created and no file is written.
C1_MissingPlanFails ==
    (Called /\ "doc_structure" \notin DOMAIN last.pre) =>
        /\ last.exc = MissingPlanError
        /\ files = last.pre_files
        /\ dirs = last.pre_dirs
        /\ last.blocks = <<>>

C1_Witness ==
    /\ Called /\ last.has_ctx
    /\ "doc_structure" \notin DOMAIN last.pre
    /\ "output_path" \in DOMAIN last.pre
    /\ last.output_path # PyNone
    /\ last.exc = MissingPlanError

\* the value the contract resolves a parameter to: the explicit argument,
\* else the state's value under the key, else the default
ContractParam(arg, key, default) ==
    IF arg.py # "None" THEN arg
    ELSE IF last.has_ctx /\ key \in DOMAIN last.pre THEN last.pre[key]
    ELSE default

\* C2: output_path and language resolve to the explicit argument when one is
\* given, else to the state's value, else to the default.
C2_ExplicitArgumentWins ==
    (Called /\ last.exc = "None") =>
        /\ UsedPath = ContractParam(last.output_path, "output_path", DefaultOutputPath)
        /\ UsedLanguage = ContractParam(last.language, "language", DefaultLanguage)

\* the absolute form of a path string, stated on the string itself
AbsoluteText(t) == IF t[1] = "/" THEN t ELSE <<"/", "work", "/">> \o t

\* C3: a successful render sets generated_docx to the absolute form of the
\* path it used and document_language to the language it used, and changes
\* no other key of PipelineState.
C3_SuccessWritesTwoKeys ==
    (Called /\ last.has_ctx /\ last.exc = "None") =>
        /\ DOMAIN state = DOMAIN last.pre \cup {"generated_docx", "document_language"}
        /\ state["generated_docx"] = PyStr(AbsoluteText(UsedPath.s))
        /\ state["document_language"] = UsedLanguage
        /\ \A k \in DOMAIN last.pre \ {"generated_docx", "document_language"} :
               state[k] = last.pre[k]

C3_Witness ==
    /\ Called /\ last.has_ctx /\ last.exc = "None"
    /\ {"doc_structure", "output_path", "language"} \subseteq DOMAIN last.pre
    /\ UsedPath.s[1] # "/"
    /\ "generated_docx" \notin DOMAIN last.pre

\* whether a plan mapping is one the renderer renders to the end
Renders(raw) ==
    /\ NormalizePlan(raw).exc = "None"
    /\ RenderSections(NormalizePlan(raw).val).exc = "None"

\* C4: every shape of a plan (typed instance, mapping, JSON text, fenced
\* JSON text) held in doc_structure leads to the document of that plan.
C4_EveryShapeRenders ==
    (Called /\ last.has_ctx /\ "doc_structure" \in DOMAIN last.pre) =>
        \A raw \in SeedPlans :
            (Renders(raw) /\ last.pre["doc_structure"] \in Shapes(raw)) =>
                /\ last.exc \in {"None"} \cup StorageErrors
                /\ last.exc = "None" =>
                       last.blocks = RenderSections(NormalizePlan(raw).val).blocks

\* the blocks the assembler is to append for a section: heading, description,
\* elements, subsections (heading, then elements), conclusion
ElementBlocks(els) == Flatten([i \in 1..Len(els) |-> RenderElement(els[i]).blocks])
SubElementBlocks(els) == Flatten([i \in 1..Len(els) |-> RenderSubElement(els[i]).blocks])
OptParagraph(v) == IF Truthy(v) THEN <<Paragraph(v, "Normal")>> ELSE <<>>
SubsectionsOf(sec) ==
    IF sec.fields["subsections"].py = "list" THEN sec.fields["subsections"].items ELSE <<>>
ExpectedSection(sec) ==
    <<Heading(sec.fields["title"], 1)>>
    \o OptParagraph(sec.fields["description"])
    \o ElementBlocks(sec.fields["elements"].items)
    \o Flatten([i \in 1..Len(SubsectionsOf(sec)) |->
                  <<Heading(SubsectionsOf(sec)[i].fields["title"], 2)>>
                  \o SubElementBlocks(SubsectionsOf(sec)[i].fields["elements"].items)])
    \o OptParagraph(sec.fields["conclusion"])
ExpectedBlocks(plan) ==
    Flatten([i \in 1..Len(plan.fields["sections"].items) |->
               ExpectedSection(plan.fields["sections"].items[i])])

\* C5: the blocks appended are, section by section in plan order, the
\* heading, the description, the elements, the subsections and the
\* conclusion of each section.
C5_BlocksInPlanOrder ==
    (Called /\ PlanUsed.exc = "None" /\ last.exc # "OSError: mkdir") =>
        last.blocks = ExpectedBlocks(PlanUsed.val)

IsLevel1(b) == b.kind = "heading" /\ b.level = 1
Level1Texts(bs) ==
    LET hs == SelectSeq(bs, IsLevel1) IN [i \in 1..Len(hs) |-> hs[i].text]
SectionTitles(plan) ==
    [i \in 1..Len(plan.fields["sections"].items) |->
        plan.fields["sections"].items[i].fields["title"]]
HasH1Element(plan) ==
    \E i \in 1..Len(plan.fields["sections"].items) :
        LET sec == plan.fields["sections"].items[i] IN
        \/ \E j \in 1..Len(sec.fields["elements"].items) :
               sec.fields["elements"].items[j].fields["type"].s = <<"h", "1">>
        \/ \E k \in 1..Len(SubsectionsOf(sec)) :
               \E j \in 1..Len(SubsectionsOf(sec)[k].fields["elements"].items) :
                   SubsectionsOf(sec)[k].fields["elements"].items[j].fields["type"].s = <<"h", "1">>

\* C6: for a valid plan with at least one section, the document holds one
\* section-title heading per section of the plan, in plan order.
C6_OneHeadingPerSection ==
    (/\ Called /\ PlanUsed.exc = "None" /\ last.exc # "OSError: mkdir"
     /\ PlanUsed.val.fields["sections"].items # <<>>
     /\ ~HasH1Element(PlanUsed.val)) =>
        Level1Texts(last.blocks) = SectionTitles(PlanUsed.val)

EmptyPlan == PlanOf(<<>>)

\* C7: a plan with zero sections renders without a plan or rendering error
\* and appends no block; when storage works the empty document is saved at
\* the path used and generated_docx is written.
C7_EmptyPlanRenders ==
    (/\ Called /\ last.has_ctx /\ "doc_structure" \in DOMAIN last.pre
     /\ last.pre["doc_structure"] \in {EmptyPlan, Typed(EmptyPlan)}) =>
        /\ last.exc \in {"None"} \cup StorageErrors
        /\ last.blocks = <<>>
        /\ last.exc = "None" =>
              /\ "generated_docx" \in DOMAIN state
              /\ Absolute(Path(UsedPath.s)).parts \in DOMAIN files
              /\ files[Absolute(Path(UsedPath.s)).parts] = <<>>

C7_Witness ==
    /\ Called /\ last.has_ctx /\ "doc_structure" \in DOMAIN last.pre
    /\ last.pre["doc_structure"] = EmptyPlan
    /\ last.exc = "None"
    /\ "generated_docx" \notin DOMAIN last.pre
    /\ "generated_docx" \in DOMAIN state

\* C8: rendering the elements of a normalized plan never raises: a call
\* whose plan normalizes ends without error or with a storage error.
C8_ElementsNeverRaise ==
    (Called /\ PlanUsed.exc = "None") => last.exc \in {"None"} \cup StorageErrors

\* the element kinds of the specification
SpecKinds ==
    { <<"p">>, <<"ul">>, <<"ol">>, <<"li">>, <<"table">>, <<"quote">> } \cup HeadingTypes

WellFormedElement(e) ==
    /\ "type" \in DOMAIN e.d /\ e.d["type"].s \in SpecKinds
    /\ "content" \in DOMAIN e.d /\ e.d["content"].py = "str"

\* C9: a plan mapping whose elements are of the kinds paragraph, unordered
\* list, ordered list, list item, table, quote and heading 1..6 is accepted
\* by normalization.
C9_EveryKindNormalizes ==
    (Called /\ last.has_ctx /\ "doc_structure" \in DOMAIN last.pre) =>
        \A e \in ElementPool :
            (WellFormedElement(e) /\ last.pre["doc_structure"] = ElementPlan(e)) =>
                last.exc # "ValidationError"

\* C10: an element of an unrecognized type is rendered as one plain
\* paragraph carrying its content, and the call does not fail because of it.
C10_UnknownKindIsParagraph ==
    (/\ Called /\ last.has_ctx /\ "doc_structure" \in DOMAIN last.pre
     /\ last.pre["doc_structure"] = ElementPlan(El(<<"callout">>, <<"a">>))) =>
        /\ last.exc \in {"None"} \cup StorageErrors
        /\ last.exc # "OSError: mkdir" =>
               last.blocks = <<Heading(Str("T1"), 1), Paragraph(Str("a"), "Normal")>>

\* the plan of the last call is the one-element plan of e
RendersElement(e) ==
    /\ Called /\ last.has_ctx /\ "doc_structure" \in DOMAIN last.pre
    /\ last.pre["doc_structure"] = ElementPlan(e)

\* the last call got as far as rendering, and appended bs after the heading
\* of the one section
AppendsAfterTitle(bs) ==
    /\ last.exc \in {"None"} \cup StorageErrors
    /\ last.exc # "OSError: mkdir" => last.blocks = <<Heading(Str("T1"), 1)>> \o bs

\* C11: a paragraph element without content normalizes and renders as one
\* empty paragraph.
C11_ContentIsOptional ==
    RendersElement(PyDict([type |-> Str("p")])) =>
        AppendsAfterTitle(<<Paragraph(EmptyStr, "Normal")>>)

\* the elements of the pool whose structured field is present and non-empty
HasStructured(e, field) ==
    /\ "type" \in DOMAIN e.d /\ field \in DOMAIN e.d /\ "content" \in DOMAIN e.d
    /\ Truthy(e.d[field])

ListStyle(e) == IF e.d["type"].s = <<"ul">> THEN "List Bullet" ELSE "List Number"

RowsOf(data) == [i \in 1..Len(data.items) |-> data.items[i].items]
Widest(rows) == Max({Len(rows[i]) : i \in 1..Len(rows)})

\* the blocks derived from the structured field alone
StructuredBlocks(e) ==
    IF "list_items" \in DOMAIN e.d
    THEN [i \in 1..Len(e.d["list_items"].items) |->
            Paragraph(e.d["list_items"].items[i], ListStyle(e))]
    ELSE IF "quote_text" \in DOMAIN e.d
    THEN <<Paragraph(e.d["quote_text"], "Quote")>>
    ELSE <<TableFrom(RowsOf(e.d["table_data"]), Widest(RowsOf(e.d["table_data"])))>>

\* C12: for a list, table or quote element whose structured field is present
\* and non-empty, the blocks come from the structured field only.
C12_StructuredFieldWins ==
    \A e \in ElementPool :
        (/\ RendersElement(e)
         /\ \E f \in {"list_items", "table_data", "quote_text"} : HasStructured(e, f)) =>
            AppendsAfterTitle(StructuredBlocks(e))

TableDataElement ==
    PyDict([type |-> Str("table"), content |-> PyStr(<<>>),
            table_data |-> PyList(<< PyList(<<Str("A"), Str("B")>>),
                                     PyList(<<Str("1"), Str("2"), Str("3")>>) >>)])

\* C13: a table element with table_data renders a table with one row per
\* row of table_data and as many columns as the longest row; a cell holds
\* the text of table_data or is blank; exactly the written cells of the
\* first row are bold.
C13_TableFromData ==
    RendersElement(TableDataElement) =>
        /\ last.exc \in {"None"} \cup StorageErrors
        /\ last.exc # "OSError: mkdir" =>
              LET rows == RowsOf(TableDataElement.d["table_data"]) IN
              /\ Len(last.blocks) = 2
              /\ last.blocks[2].kind = "table"
              /\ Len(last.blocks[2].cells) = 2
              /\ \A i \in 1..2 :
                    /\ Len(last.blocks[2].cells[i]) = 3
                    /\ \A j \in 1..3 :
                          /\ last.blocks[2].cells[i][j].text =
                                 (IF j <= Len(rows[i]) THEN rows[i][j] ELSE EmptyStr)
                          /\ last.blocks[2].cells[i][j].bold = (i = 1 /\ j <= Len(rows[i]))

MarkdownTableElement ==
    El(<<"table">>, <<"|", "A", "|", "B", "|", "\n", "|", "1", "|", "2", "|", "3", "|">>)

\* C14: a table element without table_data renders its content as a table:
\* one row per non-blank line, the cells of the first row fixing the column
\* count, later cells beyond it dropped, the first row bold.
C14_TableFromMarkdown ==
    RendersElement(MarkdownTableElement) =>
        AppendsAfterTitle(
            <<Table(<< <<Cell(Str("A"), TRUE), Cell(Str("B"), TRUE)>>,
                       <<Cell(Str("1"), FALSE), Cell(Str("2"), FALSE)>> >>,
                    "Light Grid Accent 1")>>)

\* the value under doc_structure when the last call started
HeldPlan == last.pre["doc_structure"]
HoldsPlan == Called /\ last.has_ctx /\ "doc_structure" \in DOMAIN last.pre

NormalizationErrors ==
    { MissingPlanError, "ValueError: could not parse doc_structure as JSON",
      "ValueError: doc_structure dict must have 'sections' key", "TypeError",
      "ValidationError" }

\* C15: a plan held as a DocStructure instance is accepted as it is: the
\* call does not fail in normalization, the plan it renders is the held
\* instance, unchanged, and the blocks of a finished run are those of the
\* instance.
C15_InstanceAcceptedAsIs ==
    (HoldsPlan /\ IsInstance(HeldPlan, "DocStructure")) =>
        /\ last.exc \notin NormalizationErrors
        /\ PlanUsed = Ok(HeldPlan)
        /\ state["doc_structure"] = HeldPlan
        /\ last.exc = "None" => last.blocks = ExpectedBlocks(HeldPlan)

C15_Witness ==
    /\ HoldsPlan /\ IsInstance(HeldPlan, "DocStructure")
    /\ HeldPlan = Typed(PlanOf(<<SecFull>>))
    /\ last.exc = "None"
    /\ Len(last.blocks) > 1

\* C17: a doc_structure mapping without the sections key makes the call
\* fail with the shape error, which is not the missing-plan error.
C17_NoSectionsIsShapeError ==
    (/\ HoldsPlan /\ IsInstance(HeldPlan, "dict")
     /\ "sections" \notin DOMAIN HeldPlan.d) =>
        /\ last.exc = "ValueError: doc_structure dict must have 'sections' key"
        /\ last.exc # MissingPlanError

\* a mapping with a sections key that is no list of valid sections
ViolatesSchema(v) ==
    /\ IsInstance(v, "dict") /\ "sections" \in DOMAIN v.d
    /\ ~ /\ v.d["sections"].py = "list"
         /\ \A i \in 1..Len(v.d["sections"].items) : ValidSection(v.d["sections"].items[i])

\* C18: a doc_structure mapping with sections that violates the schema makes
\* the call fail with the validation error; no directory is created, no file
\* is written and no key of the state is modified.
C18_SchemaViolationFailsEarly ==
    (HoldsPlan /\ ViolatesSchema(HeldPlan)) =>
        /\ last.exc = "ValidationError"
        /\ state = last.pre
        /\ dirs = last.pre_dirs
        /\ files = last.pre_files

C18_Witness ==
    /\ HoldsPlan
    /\ HeldPlan = ElementPlan(PyDict([content |-> Str("a")]))
    /\ last.exc = "ValidationError"

\* the path the last call worked on, and its parent directory
TargetPath ==
    Path(ResolveParam(last.output_path, "output_path", DefaultOutputPath,
                      last.has_ctx, last.pre).s)
TargetDir == Absolute(Parent(TargetPath)).parts
DirOf(q) == SubSeq(q, 1, Len(q) - 1)

\* C19: the parent directories of the output path are created before the
\* document is saved: every file written lies in an existing directory; a
\* call that fails creating the directory writes no file; and creating a
\* directory that exists already is no error.
C19_DirectoryBeforeSave ==
    /\ \A q \in DOMAIN files : DirOf(q) \in dirs
    /\ Called =>
          /\ last.exc = "OSError: mkdir" => files = last.pre_files /\ dirs = last.pre_dirs
          /\ files # last.pre_files => TargetDir \in dirs
          /\ TargetDir \in last.pre_dirs => last.exc # "OSError: mkdir"

\* a second run to a path whose directory the first run created
C19_Witness ==
    /\ Called /\ last.exc = "None"
    /\ TargetDir \in last.pre_dirs /\ TargetDir \notin InitDirs
    /\ Absolute(TargetPath).parts \in DOMAIN files

\* the path under generated_docx names a file that was saved
SavedAt(st, fs) ==
    "generated_docx" \in DOMAIN st =>
        Absolute(Path(st["generated_docx"].s)).parts \in DOMAIN fs

\* C20: a storage failure ends the call with an error and without a return
\* value, leaving generated_docx as it was; generated_docx always names a
\* path to which a save completed.
C20_GeneratedDocxAfterSave ==
    /\ SavedAt(state, files)
    /\ Called =>
          /\ last.io = "save fails" => last.exc # "None"
          /\ (last.io = "mkdir fails" /\ TargetDir \notin last.pre_dirs) => last.exc # "None"
          /\ last.exc \in StorageErrors =>
                /\ last.ret = PyNone
                /\ files = last.pre_files
                /\ ("generated_docx" \in DOMAIN state) = ("generated_docx" \in DOMAIN last.pre)
                /\ "generated_docx" \in DOMAIN state =>
                      state["generated_docx"] = last.pre["generated_docx"]
          /\ (last.exc = "None" /\ last.has_ctx) =>
                /\ "generated_docx" \in DOMAIN state
                /\ Absolute(Path(state["generated_docx"].s)) = Absolute(TargetPath)
                /\ files[Absolute(TargetPath).parts] = last.blocks

\* a save fails after an earlier run has written generated_docx
C20_Witness ==
    /\ Called /\ last.exc = "OSError: save"
    /\ "generated_docx" \in DOMAIN state
    /\ Absolute(Path(state["generated_docx"].s)).parts \in DOMAIN files

Planned == last.op = "planner"

\* C16: a valid plan emitted as JSON text in a code fence is stored by the
\* planner's normalization as a plan equal to the one emitted, whatever the
\* text of its elements.
C16_FencedRoundTrip ==
    \A raw \in PlannerPlans :
        (/\ Planned
         /\ NewDocStructure(raw.d).exc = "None"
         /\ last.llm_response \in {OneText(t) : t \in FencedEncodings(raw)}) =>
            /\ "doc_structure" \in DOMAIN state
            /\ state["doc_structure"] = ModelDump(Typed(raw))

\* the element lists of a plan: those of its sections and of their subsections
SubsOf(sec) ==
    IF Truthy(sec.fields["subsections"]) THEN sec.fields["subsections"].items ELSE <<>>
ElementLists(plan) ==
    LET secs == plan.fields["sections"].items IN
    {secs[i].fields["elements"].items : i \in 1..Len(secs)}
    \cup UNION {{SubsOf(secs[i])[j].fields["elements"].items : j \in 1..Len(SubsOf(secs[i]))} :
                   i \in 1..Len(secs)}
SubsectionsIn(plan) ==
    LET secs == plan.fields["sections"].items IN
    UNION {{SubsOf(secs[i])[j] : j \in 1..Len(SubsOf(secs[i]))} : i \in 1..Len(secs)}

\* C21: a subsection renders as a level-2 heading with its title followed by
\* its elements, and every element list of the plan gives the same blocks
\* (and the same error) in the subsection loop as in the section loop; a run
\* on one subsection of one element appends what the section loop appends
\* for that element.
C21_SubsectionPathEquivalent ==
    (HoldsPlan /\ PlanUsed.exc = "None") =>
        /\ \A els \in ElementLists(PlanUsed.val) :
              RenderSubElements(els) = RenderElements(els)
        /\ \A sub \in SubsectionsIn(PlanUsed.val) :
              RenderSubsection(sub) =
                  Chain(<< Done(<<Heading(sub.fields["title"], 2)>>),
                           RenderElements(sub.fields["elements"].items) >>)
        /\ \A e \in ElementPool :
              HeldPlan = SubElementPlan(e) =>
                  LET r == RenderElements(<<ToElement(e)>>) IN
                  /\ last.blocks = <<Heading(Str("T1"), 1), Heading(Str("U1"), 2)>> \o r.blocks
                  /\ r.exc # "None" => last.exc = r.exc
                  /\ r.exc = "None" => last.exc \in {"None"} \cup StorageErrors

C21_Witness ==
    /\ HoldsPlan
    /\ HeldPlan = SubElementPlan(El(<<"li">>, <<"b">>))
    /\ last.exc = "None"
    /\ last.blocks = << Heading(Str("T1"), 1), Heading(Str("U1"), 2),
                        Paragraph(Str("b"), "List Number") >>

\* C22: a list element without list_items renders the non-blank lines of its
\* content, one block per line in order, bullet style for ul and numbered
\* style for ol.
C22_ListFromContentLines ==
    /\ RendersElement(El(<<"ul">>, <<"a", "\n", " ", "\n", "b">>)) =>
          AppendsAfterTitle(<< Paragraph(Str("a"), "List Bullet"),
                               Paragraph(Str("b"), "List Bullet") >>)
    /\ RendersElement(El(<<"ol">>, <<"a", "\n", "b">>)) =>
          AppendsAfterTitle(<< Paragraph(Str("a"), "List Number"),
                               Paragraph(Str("b"), "List Number") >>)

\* C23: a li element renders as exactly one numbered-style block carrying
\* its content, empty when the content is absent, also between two bullet
\* lists.
C23_ListItemIsNumbered ==
    /\ RendersElement(El(<<"li">>, <<"b">>)) =>
          AppendsAfterTitle(<<Paragraph(Str("b"), "List Number")>>)
    /\ RendersElement(PyDict([type |-> Str("li")])) =>
          AppendsAfterTitle(<<Paragraph(EmptyStr, "List Number")>>)
    /\ (HoldsPlan /\ HeldPlan = ListItemPlan) =>
          AppendsAfterTitle(<< Paragraph(Str("a"), "List Bullet"),
                               Paragraph(Str("b"), "List Number"),
                               Paragraph(Str("c"), "List Bullet") >>)

EmptyRowsTable ==
    PyDict([type |-> Str("table"),
            content |-> PyStr(<<"|", "A", "|", "\n", "|", "1", "|">>),
            table_data |-> PyList(<<PyList(<<>>)>>)])

\* C29: a table element whose table_data holds only empty rows appends
\* nothing, whatever its content; so does a table element with neither
\* table_data nor content.
C29_EmptyTableAppendsNothing ==
    /\ RendersElement(EmptyRowsTable) => AppendsAfterTitle(<<>>)
    /\ RendersElement(El(<<"table">>, <<>>)) => AppendsAfterTitle(<<>>)

\* a mapping that holds sections and does not violate the schema
ValidPlan(raw) == "sections" \in DOMAIN raw.d /\ ~ViolatesSchema(raw)

\* a value the callback stores: the dump of a validated plan, which the
\* renderer's lookup takes and its normalization accepts
StoredPlanOk(st) ==
    "doc_structure" \in DOMAIN st =>
        LET v == st["doc_structure"] IN
        /\ IsInstance(v, "dict") /\ "sections" \in DOMAIN v.d
        /\ \E raw \in PipelinePlans : ValidPlan(raw) /\ v = ModelDump(Typed(raw))
        /\ LookupPlan(TRUE, st) = v
        /\ NormalizePlan(v).exc = "None"

\* responses without text, with text that is no JSON document, and with a
\* document that violates the schema
RejectedResponses ==
    { LlmResponse(PyList(<<NonTextPart>>)), OneText(Str("ok")),
      OneText(PyJsonText(<<>>, PyList(<<>>), <<>>)) }
    \cup {OneText(t) : t \in UNION {Encodings(raw) :
             raw \in {r \in PipelinePlans : ~ValidPlan(r)}}}

\* C24: the callback writes doc_structure only with the dump of a plan that
\* passed validation, which holds sections and is taken by the renderer's
\* lookup; a response without text, with undecodable text or with a schema
\* violation leaves the state as it was.
C24_OnlyValidatedPlansStored ==
    /\ StoredPlanOk(state)
    /\ Planned =>
          /\ \A k \in DOMAIN state \ {"doc_structure"} :
                k \in DOMAIN last.pre /\ state[k] = last.pre[k]
          /\ last.printed # "None" => state = last.pre
          /\ last.llm_response \in RejectedResponses => state = last.pre

\* a rejected response after a plan was stored
C24_Witness ==
    /\ Planned
    /\ last.llm_response = OneText(Bare(ElementPlan(El(<<"quote">>, <<"a">>))))
    /\ last.printed = FailedToParse
    /\ "doc_structure" \in DOMAIN last.pre
    /\ state = last.pre

\* C25: generated_docx is in the state only if doc_structure is: a call of
\* the renderer on a state without doc_structure fails with the missing-plan
\* error and writes nothing.
C25_NoDocxBeforePlan ==
    /\ "generated_docx" \in DOMAIN state => "doc_structure" \in DOMAIN state
    /\ (Called /\ "doc_structure" \notin DOMAIN last.pre) =>
          /\ last.exc = MissingPlanError
          /\ state = last.pre /\ files = last.pre_files

\* the renderer succeeds after the callback has stored a plan
C25_Witness ==
    /\ Called /\ last.exc = "None"
    /\ "generated_docx" \in DOMAIN state
    /\ "doc_structure" \in DOMAIN last.pre
    /\ "generated_docx" \notin DOMAIN last.pre

\* C26: a call that ends in an error leaves the state exactly as it was.
C26_ErrorLeavesStateUntouched ==
    (Called /\ last.exc # "None") => state = last.pre

\* C27: the value under doc_structure is the same after a call as before
\* it, whether the call returns or fails, and a call that got as far as
\* rendering, repeated on the state it leaves, appends the same blocks.
C27_PlanNeverModified ==
    Called =>
        /\ ("doc_structure" \in DOMAIN state) = ("doc_structure" \in DOMAIN last.pre)
        /\ "doc_structure" \in DOMAIN state =>
              state["doc_structure"] = last.pre["doc_structure"]
        /\ NormalizePlan(LookupPlan(last.has_ctx, state)) = PlanUsed
        /\ last.exc # "OSError: mkdir" =>
              Run(last.output_path, last.language, last.has_ctx, "ok",
                  state, dirs, files).blocks = last.blocks

\* a second run on a state an earlier run has written to
C27_Witness ==
    /\ HoldsPlan /\ last.exc = "None"
    /\ "generated_docx" \in DOMAIN last.pre
    /\ HeldPlan = PlanOf(<<SecFull>>)
    /\ Len(last.blocks) > 1

\* C28: a call without a tool context fails with the missing-plan error,
\* whatever its arguments; no directory is created, no file is written and
\* the state is left alone.
C28_NoContextFails ==
    (Called /\ ~last.has_ctx) =>
        /\ last.exc = MissingPlanError
        /\ dirs = last.pre_dirs /\ files = last.pre_files /\ state = last.pre

C28_Witness ==
    /\ Called /\ ~last.has_ctx
    /\ last.output_path # PyNone /\ last.language # PyNone
    /\ "doc_structure" \in DOMAIN state /\ LookupPlan(TRUE, state) # PyNone
    /\ last.exc = MissingPlanError

====
